---- MODULE Spec2Model ----
(***************************************************************************)
(* FileMate: the node-tree store (filemate/file_system_node_tree.py) and   *)
(* the packer (filemate/packer.py).                                        *)
(*                                                                         *)
(* TreeNodes live in an arena: a store's `nodes` is the sequence of the    *)
(* TreeNodes created since its last build() (build() makes a new root and  *)
(* drops the reference to the old tree), a node is its index, 0 is None.   *)
(* Filesystem entities (FileSystemNode) are the rows of the table FS.      *)
(***************************************************************************)
EXTENDS Integers, Sequences, FiniteSets, TLC

\* ------------------------------------------------------------------ bounds

\* TreeNodes one store may hold; add_node is not taken beyond it.
MaxNodes == 7
\* Clock steps taken by Tick.
MaxTicks == 2
\* Builds during which an entity fails to be read.
MaxFailures == 1

\* ------------------------------------------------------- program constants

\* CacheIt(max_duration=3600, ...)
max_duration == 3600

None == 0
Anchor == "/"
Stores == {"src", "dst"}

\* ------------------------------------------------- the filesystem entities

\* The FileSystemNode collaborator: name, kind, size, hidden flag, the ordered
\* one-level enumeration of children, the parent entity and, for a top
\* directory, the directory it lives in.
FS ==
  << [name |-> "A",   kind |-> "Directory", size |-> 0,  hidden |-> FALSE, kids |-> <<2, 3, 5>>, up |-> 0, mount |-> "s"],
     [name |-> "x",   kind |-> "File",      size |-> 10, hidden |-> FALSE, kids |-> <<>>,        up |-> 1, mount |-> ""],
     [name |-> "sub", kind |-> "Directory", size |-> 0,  hidden |-> FALSE, kids |-> <<4>>,       up |-> 1, mount |-> ""],
     [name |-> "y",   kind |-> "File",      size |-> 5,  hidden |-> FALSE, kids |-> <<>>,        up |-> 3, mount |-> ""],
     [name |-> ".h",  kind |-> "File",      size |-> 1,  hidden |-> TRUE,  kids |-> <<>>,        up |-> 1, mount |-> ""],
     [name |-> "A",   kind |-> "Directory", size |-> 0,  hidden |-> FALSE, kids |-> <<7>>,       up |-> 0, mount |-> "d"],
     [name |-> "x",   kind |-> "File",      size |-> 1,  hidden |-> FALSE, kids |-> <<>>,        up |-> 6, mount |-> ""],
     [name |-> "A",   kind |-> "Directory", size |-> 0,  hidden |-> FALSE, kids |-> <<9, 11>>,   up |-> 0, mount |-> "e"],
     [name |-> "sub", kind |-> "Directory", size |-> 0,  hidden |-> FALSE, kids |-> <<10, 12>>,  up |-> 8, mount |-> ""],
     [name |-> "x",   kind |-> "File",      size |-> 2,  hidden |-> FALSE, kids |-> <<>>,        up |-> 9, mount |-> ""],
     [name |-> "y",   kind |-> "Directory", size |-> 0,  hidden |-> FALSE, kids |-> <<>>,        up |-> 8, mount |-> ""],
     [name |-> "y",   kind |-> "File",      size |-> 3,  hidden |-> FALSE, kids |-> <<>>,        up |-> 9, mount |-> ""] >>

Entities == DOMAIN FS
SourceRoots == {1, 8}
DestinationRoots == {6, 8}

\* node.is_instance(Directory) on a filesystem entity
IsDirectory(e) == FS[e].kind = "Directory"

\* node.iter(recursive=False, hidden=False): the non-hidden children, in order
RECURSIVE VisibleFrom(_, _)
VisibleFrom(kids, i) ==
  IF i > Len(kids) THEN <<>>
  ELSE IF FS[kids[i]].hidden THEN VisibleFrom(kids, i + 1)
  ELSE <<kids[i]>> \o VisibleFrom(kids, i + 1)

Iter(e) == VisibleFrom(FS[e].kids, 1)

\* node.path of a filesystem entity, as the parts of the absolute path
RECURSIVE EntityPath(_)
EntityPath(e) ==
  IF FS[e].up = 0 THEN <<Anchor, FS[e].mount, FS[e].name>>
  ELSE Append(EntityPath(FS[e].up), FS[e].name)

\* ----------------------------------------------------------- the TreeNodes

SeqToSet(s) == {s[i] : i \in DOMAIN s}

\* Body applied to the value of x, x evaluated once.
With(x, Body(_)) == CHOOSE out \in {Body(v) : v \in {x}} : TRUE

\* A new node that records its parent without entering the parent's children.
create_node_unlinked(N, e, parent) ==
  Append(N, [name |-> FS[e].name, size |-> FS[e].size, type |-> FS[e].kind,
             parent |-> parent, children |-> <<>>])

\* TreeNode(node.path.name, parent=parent, size=..., type=...): a new node,
\* appended to its parent's children when a parent is given.
create_node(N, e, parent) ==
  LET id == Len(N) + 1
      withNew == Append(N, [name |-> FS[e].name, size |-> FS[e].size,
                            type |-> FS[e].kind, parent |-> parent,
                            children |-> <<>>])
  IN  IF parent = None THEN withNew
      ELSE [withNew EXCEPT ![parent].children = Append(@, id)]

\* ------------------------------------------------------------- build cache

\* The key CacheIt derives from the call's arguments: the entity and the
\* target node as it prints, its names from the root down.
RECURSIVE PathName(_, _)
PathName(N, n) ==
  IF N[n].parent = None THEN <<N[n].name>>
  ELSE Append(PathName(N, N[n].parent), N[n].name)

CacheKey(N, e, n) == <<e, PathName(N, n)>>

CacheHit(c, key, t) == \E en \in c : en.key = key /\ t - en.t < max_duration

CachePut(c, key, t) == {en \in c : en.key # key} \cup {[key |-> key, t |-> t]}

\* ------------------------------------------------------------------- build

\* What a build meets: at most one entity that cannot be read, failing with
\* an OSError when its TreeNode is created (get_size, get_type), when its
\* kind is tested (is_instance) or when its children are enumerated (iter).
NoFail == [e |-> 0, mode |-> "ok"]
FailModes == {"create", "kind", "enum"}

RECURSIVE build_tree_recursive(_, _, _, _, _, _)
RECURSIVE build_children(_, _, _, _, _, _, _, _, _)
RECURSIVE build_children_aborting(_, _, _, _, _, _, _, _, _)

\* The loop with the try around it instead of inside it: the first error of
\* a child ends the loop and goes up to the caller.
build_children_aborting(N, c, kids, i, n, fail, t, caught, walked) ==
  IF i > Len(kids)
  THEN [N |-> N, cache |-> c, err |-> "none", caught |-> caught, walked |-> walked]
  ELSE
    LET ch == kids[i]
        raised(M) == [N |-> M, cache |-> c, err |-> "OSError",
                      caught |-> caught \cup {ch}, walked |-> walked]
    IN
    IF fail.e = ch /\ fail.mode = "create" THEN raised(N)
    ELSE With(create_node(N, ch, n), LAMBDA N1 :
      IF fail.e = ch /\ fail.mode = "kind" THEN raised(N1)
      ELSE IF IsDirectory(ch)
      THEN With(build_tree_recursive(N1, c, ch, Len(N1), fail, t), LAMBDA r :
             IF r.err # "none" THEN [r EXCEPT !.caught = caught \cup r.caught \cup {ch}]
             ELSE build_children_aborting(r.N, r.cache, kids, i + 1, n, fail, t,
                                          caught \cup r.caught, walked \cup r.walked))
      ELSE build_children_aborting(N1, c, kids, i + 1, n, fail, t, caught, walked))

\* One pass of the for loop of __build_tree_recursive, from child i on.
\* The result carries the arena, the cache, the children whose error was
\* caught and the entities whose children were enumerated.
build_children(N, c, kids, i, n, fail, t, caught, walked) ==
  IF i > Len(kids)
  THEN [N |-> N, cache |-> c, err |-> "none", caught |-> caught, walked |-> walked]
  ELSE
    LET ch == kids[i] IN
    IF fail.e = ch /\ fail.mode = "create"
    THEN build_children(N, c, kids, i + 1, n, fail, t, caught \cup {ch}, walked)
    ELSE With(create_node(N, ch, n), LAMBDA N1 :
      IF fail.e = ch /\ fail.mode = "kind"
      THEN build_children(N1, c, kids, i + 1, n, fail, t, caught \cup {ch}, walked)
      ELSE IF IsDirectory(ch)
      THEN With(build_tree_recursive(N1, c, ch, Len(N1), fail, t), LAMBDA r :
             build_children(r.N, r.cache, kids, i + 1, n, fail, t,
                            IF r.err = "none" THEN caught \cup r.caught
                            ELSE caught \cup r.caught \cup {ch},
                            walked \cup r.walked))
      ELSE build_children(N1, c, kids, i + 1, n, fail, t, caught, walked))

\* __build_tree_recursive under CacheIt: skipped on a cache hit; the entry is
\* made when the call returns, not when it raises.
build_tree_recursive(N, c, e, n, fail, t) ==
  IF CacheHit(c, CacheKey(N, e, n), t)
  THEN [N |-> N, cache |-> c, err |-> "none", caught |-> {}, walked |-> {}]
  ELSE IF fail.e = e /\ fail.mode = "enum"
  THEN [N |-> N, cache |-> c, err |-> "OSError", caught |-> {}, walked |-> {}]
  ELSE With(build_children(N, c, Iter(e), 1, n, fail, t, {}, {e}), LAMBDA r :
         [r EXCEPT !.cache = CachePut(r.cache, CacheKey(N, e, n), t)])

\* build_tree making the new root node a child of the root node the store
\* held before.
build_tree_under_previous(st, c, e, fail, t) ==
  IF fail.e = e /\ fail.mode = "create"
  THEN [N |-> st.nodes, root |-> st.root, cache |-> c, err |-> "OSError",
        caught |-> {}, walked |-> {}]
  ELSE With(create_node(st.nodes, e, st.root), LAMBDA N1 :
       With(build_tree_recursive(N1, c, e, Len(N1), fail, t), LAMBDA r :
         [N |-> r.N, root |-> Len(N1), cache |-> r.cache, err |-> r.err,
          caught |-> r.caught, walked |-> r.walked]))

\* __build_tree: a fresh root TreeNode, then the recursive expansion.
build_tree(st, c, e, fail, t) ==
  IF fail.e = e /\ fail.mode = "create"
  THEN [N |-> st.nodes, root |-> st.root, cache |-> c, err |-> "OSError",
        caught |-> {}, walked |-> {}]
  ELSE With(create_node(<<>>, e, None), LAMBDA N1 :
       With(build_tree_recursive(N1, c, e, Len(N1), fail, t), LAMBDA r :
         [N |-> r.N, root |-> Len(N1), cache |-> r.cache, err |-> r.err,
          caught |-> r.caught, walked |-> r.walked]))

\* ------------------------------------------------------------------ search

RECURSIVE find_by_name(_, _, _)
RECURSIVE find_in_children(_, _, _, _)

\* _find_by_name testing the names of all the children of a node before it
\* goes down into any of them.
find_by_name_children_first(N, n, name) ==
  LET ch == N[n].children
      hits == {i \in DOMAIN ch : N[ch[i]].name = name}
  IN  IF N[n].name = name THEN n
      ELSE IF hits # {} THEN ch[CHOOSE i \in hits : \A j \in hits : i <= j]
      ELSE find_in_children(N, ch, 1, name)

\* _find_by_name: the node itself, then its children in order (pre-order).
find_by_name(N, n, name) ==
  IF N[n].name = name THEN n
  ELSE find_in_children(N, N[n].children, 1, name)

find_in_children(N, ch, i, name) ==
  IF i > Len(ch) THEN None
  ELSE With(find_by_name(N, ch[i], name), LAMBDA r :
         IF r # None THEN r ELSE find_in_children(N, ch, i + 1, name))

\* search_node_by_name, on a store whose root_tree_node is set
search_node_by_name(st, name) == find_by_name(st.nodes, st.root, name)

\* The working directory of the process, which Path.resolve() puts before a
\* relative path.
Cwd == <<Anchor, "w">>

\* Path(path).resolve().parts: always absolute, the anchor first
Resolve(path) ==
  IF path # <<>> /\ path[1] = Anchor THEN path ELSE Cwd \o path

\* next((child for child in current_node.children if child.name == part), None)
FirstChildNamed(N, n, part) ==
  LET ch == N[n].children
      hits == {i \in DOMAIN ch : N[ch[i]].name = part}
  IN  IF hits = {} THEN None
      ELSE ch[CHOOSE i \in hits : \A j \in hits : i <= j]

RECURSIVE descend(_, _, _, _)
descend(N, cur, parts, i) ==
  IF i > Len(parts) THEN cur
  ELSE LET m == FirstChildNamed(N, cur, parts[i]) IN
       IF m = None THEN None ELSE descend(N, m, parts, i + 1)

\* A search that takes the path as relative to the root's own path.
search_node_by_path_from_root(st, rootPath, path) ==
  LET parts == Resolve(path) IN
  IF Len(parts) >= Len(rootPath) /\ SubSeq(parts, 1, Len(rootPath)) = rootPath
  THEN descend(st.nodes, st.root, SubSeq(parts, Len(rootPath) + 1, Len(parts)), 1)
  ELSE None

\* search_node_by_path: every part of the resolved path, the anchor and the
\* directories above the root included, is looked up from the root's children
\* down.  rootPath, the root entity's own path, is not read.
search_node_by_path(st, rootPath, path) ==
  descend(st.nodes, st.root, Resolve(path), 1)

\* ------------------------------------------------------- add and remove

RemoveAt(sq, x) ==
  LET keep == {i \in DOMAIN sq : sq[i] # x}
      F[i \in 0..Len(sq)] ==
        IF i = 0 THEN <<>>
        ELSE IF i \in keep THEN Append(F[i - 1], sq[i]) ELSE F[i - 1]
  IN  F[Len(sq)]

\* node.parent = None: the node leaves its parent's children
detach(N, n) ==
  IF N[n].parent = None THEN N
  ELSE [N EXCEPT ![N[n].parent].children = RemoveAt(@, n), ![n].parent = None]

\* add_node attaching the child under the root when the parent path is not
\* found.
add_node_under_root(st, rootPath, parent_path, e) ==
  IF st.root = None THEN [N |-> st.nodes, err |-> "AttributeError"]
  ELSE With(search_node_by_path(st, rootPath, parent_path), LAMBDA p :
         [N |-> create_node(st.nodes, e, IF p = None THEN st.root ELSE p),
          err |-> "none"])

\* FileSystemNodeTree.add_node
add_node(st, rootPath, parent_path, e) ==
  IF st.root = None THEN [N |-> st.nodes, err |-> "AttributeError"]
  ELSE With(search_node_by_path(st, rootPath, parent_path), LAMBDA p :
         IF p = None THEN [N |-> st.nodes, err |-> "ValueError"]
         ELSE [N |-> create_node(st.nodes, e, p), err |-> "none"])

\* FileSystemNodeTree.remove_node
remove_node(st, rootPath, path) ==
  IF st.root = None THEN [N |-> st.nodes, err |-> "AttributeError"]
  ELSE With(search_node_by_path(st, rootPath, path), LAMBDA n :
         IF n = None THEN [N |-> st.nodes, err |-> "ValueError"]
         ELSE [N |-> detach(st.nodes, n), err |-> "none"])

\* The path of a TreeNode as a filesystem path: the root entity's directory,
\* then the names from the root down to the node.
NodePath(st, rootPath, n) ==
  SubSeq(rootPath, 1, Len(rootPath) - 1) \o PathName(st.nodes, n)

\* ------------------------------------------------------------------ packer

\* The packer reads its destination nodes through the FileSystemNode
\* interface (is_instance, path, parent), as its signatures declare them.
\* node_from_destination.is_instance(Directory), on a node of the destination
IsDirectoryNode(N, d) == N[d].type = "Directory"

\* A packer call works on the destination store: P carries the policy flags
\* (override, merge), the destination's root_tree_node (root) and the path of
\* its root entity (rootPath).  Every operation returns the destination's
\* nodes, the error it raised ("none" when it returned) and the calls made.
Call(fn, e, d) == [fn |-> fn, src |-> e, dst |-> d]

\* Packer.add_node: destination.add_node(parent.path, node)
packer_add_node(P, N, e, p, calls) ==
  LET st == [nodes |-> N, root |-> P.root]
      cs == Append(calls, Call("add_node", e, p))
  IN  IF p = None THEN [N |-> N, err |-> "AttributeError", calls |-> cs]
      ELSE With(add_node(st, P.rootPath, NodePath(st, P.rootPath, p), e), LAMBDA r :
             [N |-> r.N, err |-> r.err, calls |-> cs])

\* Packer.remove_node: destination.remove_node(node.path)
packer_remove_node(P, N, d, calls) ==
  LET st == [nodes |-> N, root |-> P.root] IN
  With(remove_node(st, P.rootPath, NodePath(st, P.rootPath, d)), LAMBDA r :
    [N |-> r.N, err |-> r.err, calls |-> Append(calls, Call("remove_node", 0, d))])

\* Packer.replace_directory: the destination's parent is read after the
\* removal.
replace_directory(P, N, e, d, calls) ==
  With(packer_remove_node(P, N, d, Append(calls, Call("replace_directory", e, d))),
       LAMBDA r : IF r.err # "none" THEN r
                  ELSE packer_add_node(P, r.N, e, r.N[d].parent, r.calls))

\* Packer.replace_node
replace_node(P, N, e, d, calls) ==
  LET cs == Append(calls, Call("replace_node", e, d)) IN
  IF IsDirectory(e) /\ IsDirectoryNode(N, d)
  THEN replace_directory(P, N, e, d, cs)
  ELSE packer_add_node(P, N, e, N[d].parent, cs)

RECURSIVE pack(_, _, _, _, _)
RECURSIVE override_node(_, _, _, _, _)
RECURSIVE override_directory_from(_, _, _, _, _, _)
RECURSIVE merge_node(_, _, _, _, _)
RECURSIVE merge_directory_from(_, _, _, _, _, _)
RECURSIVE merge_directory_attaching(_, _, _, _, _, _)

\* Packer.override_directory, from the i-th child of the source directory on
override_directory_from(P, N, kids, i, d, calls) ==
  IF i > Len(kids) THEN [N |-> N, err |-> "none", calls |-> calls]
  ELSE LET c == kids[i] IN
       With(find_by_name(N, P.root, FS[c].name), LAMBDA cd :
       With(IF cd # None THEN pack(P, N, c, cd, calls)
            ELSE packer_add_node(P, N, c, d, calls), LAMBDA r :
         IF r.err # "none" THEN r
         ELSE override_directory_from(P, r.N, kids, i + 1, d, r.calls)))

override_directory(P, N, e, d, calls) ==
  override_directory_from(P, N, Iter(e), 1, d,
                          Append(calls, Call("override_directory", e, d)))

\* Packer.override_node
override_node(P, N, e, d, calls) ==
  LET cs == Append(calls, Call("override_node", e, d)) IN
  IF IsDirectory(e) /\ IsDirectoryNode(N, d)
  THEN override_directory(P, N, e, d, cs)
  ELSE replace_node(P, N, e, d, cs)

\* merge_directory attaching a missing child itself, as a TreeNode under the
\* destination directory, instead of through destination.add_node.
merge_directory_attaching(P, N, kids, i, d, calls) ==
  IF i > Len(kids) THEN [N |-> N, err |-> "none", calls |-> calls]
  ELSE LET c == kids[i] IN
       With(find_by_name(N, P.root, FS[c].name), LAMBDA cd :
       With(IF cd # None THEN merge_node(P, N, c, cd, calls)
            ELSE [N |-> create_node(N, c, d), err |-> "none", calls |-> calls],
            LAMBDA r :
         IF r.err # "none" THEN r
         ELSE merge_directory_attaching(P, r.N, kids, i + 1, d, r.calls)))

\* Packer.merge_directory, from the i-th child of the source directory on
merge_directory_from(P, N, kids, i, d, calls) ==
  IF i > Len(kids) THEN [N |-> N, err |-> "none", calls |-> calls]
  ELSE LET c == kids[i] IN
       With(find_by_name(N, P.root, FS[c].name), LAMBDA cd :
       With(IF cd # None THEN merge_node(P, N, c, cd, calls)
            ELSE packer_add_node(P, N, c, d, calls), LAMBDA r :
         IF r.err # "none" THEN r
         ELSE merge_directory_from(P, r.N, kids, i + 1, d, r.calls)))

merge_directory(P, N, e, d, calls) ==
  merge_directory_from(P, N, Iter(e), 1, d,
                       Append(calls, Call("merge_directory", e, d)))

\* merge_node detaching the destination node of a pair that is not two
\* directories before the source node is added beside it.
merge_node_detaching(P, N, e, d, calls) ==
  LET cs == Append(calls, Call("merge_node", e, d)) IN
  IF IsDirectory(e) /\ IsDirectoryNode(N, d)
  THEN merge_directory(P, N, e, d, cs)
  ELSE replace_node(P, detach(N, d), e, d, cs)

\* Packer.merge_node
merge_node(P, N, e, d, calls) ==
  LET cs == Append(calls, Call("merge_node", e, d)) IN
  IF IsDirectory(e) /\ IsDirectoryNode(N, d)
  THEN merge_directory(P, N, e, d, cs)
  ELSE replace_node(P, N, e, d, cs)

\* pack testing the merge flag before the override flag.
pack_merge_first(P, N, e, d, calls) ==
  With(IF d = None THEN find_by_name(N, P.root, FS[e].name) ELSE d, LAMBDA d1 :
  With(Append(calls, Call("pack", e, d1)), LAMBDA cs :
    IF d1 = None THEN [N |-> N, err |-> "none", calls |-> cs]
    ELSE IF P.merge THEN merge_node(P, N, e, d1, cs)
    ELSE IF P.override THEN override_node(P, N, e, d1, cs)
    ELSE replace_node(P, N, e, d1, cs)))

\* pack adding the source node under the destination root when the lookup
\* finds no destination node.
pack_adding_absent(P, N, e, d, calls) ==
  With(IF d = None THEN find_by_name(N, P.root, FS[e].name) ELSE d, LAMBDA d1 :
  With(Append(calls, Call("pack", e, d1)), LAMBDA cs :
    IF d1 = None THEN [N |-> create_node(N, e, P.root), err |-> "none", calls |-> cs]
    ELSE IF P.override THEN override_node(P, N, e, d1, cs)
    ELSE IF P.merge THEN merge_node(P, N, e, d1, cs)
    ELSE replace_node(P, N, e, d1, cs)))

\* Packer.pack: d = None asks for the lookup by name
pack(P, N, e, d, calls) ==
  With(IF d = None THEN find_by_name(N, P.root, FS[e].name) ELSE d, LAMBDA d1 :
  With(Append(calls, Call("pack", e, d1)), LAMBDA cs :
    IF d1 = None THEN [N |-> N, err |-> "none", calls |-> cs]
    ELSE IF P.override THEN override_node(P, N, e, d1, cs)
    ELSE IF P.merge THEN merge_node(P, N, e, d1, cs)
    ELSE replace_node(P, N, e, d1, cs)))

\* source.root_node.children: the first-level entities of the source root
Children(e) == FS[e].kids

\* Packer.pack_all, from the i-th first-level child on
RECURSIVE pack_all_from(_, _, _, _, _)
pack_all_from(P, N, kids, i, calls) ==
  IF i > Len(kids) THEN [N |-> N, err |-> "none", calls |-> calls]
  ELSE LET c == kids[i] IN
       With(find_by_name(N, P.root, FS[c].name), LAMBDA d :
       With(pack(P, N, c, d, calls), LAMBDA r :
         IF r.err # "none" THEN r
         ELSE pack_all_from(P, r.N, kids, i + 1, r.calls)))

\* pack_all going over the first-level entities a second time.
pack_all_revisiting(P, N, e) ==
  pack_all_from(P, N, Children(e) \o Children(e), 1, <<>>)

pack_all(P, N, e) == pack_all_from(P, N, Children(e), 1, <<>>)

\* The entities of the subtree of e, e included.
RECURSIVE Under(_)
Under(e) == {e} \cup UNION {Under(k) : k \in SeqToSet(FS[e].kids)}

\* ------------------------------------------------------- export and import

\* The nodes below n in the order a pre-order traversal visits them.
RECURSIVE preorder_from(_, _, _)
RECURSIVE preorder(_, _)
preorder_from(N, ch, i) ==
  IF i > Len(ch) THEN <<>>
  ELSE With(preorder(N, ch[i]), LAMBDA h : h \o preorder_from(N, ch, i + 1))

preorder(N, n) == <<n>> \o preorder_from(N, N[n].children, 1)

\* A dictionary keeps its keys in the order of their first insertion; a
\* second insertion under a key replaces the value where the key stands.
DictPut(d, k, v) ==
  IF \E i \in DOMAIN d : d[i].key = k
  THEN [i \in DOMAIN d |-> IF d[i].key = k THEN [key |-> k, value |-> v] ELSE d[i]]
  ELSE Append(d, [key |-> k, value |-> v])

\* bigtree's tree_to_dict(tree) as called, with no attr_dict and all_attrs
\* left False: one entry per node in pre-order, under the node's path from
\* the root, holding the node's name and no other attribute.
RECURSIVE to_dict(_, _, _, _)
to_dict(N, order, i, d) ==
  IF i > Len(order) THEN d
  ELSE With(DictPut(d, PathName(N, order[i]), [name |-> N[order[i]].name]),
            LAMBDA d1 : to_dict(N, order, i + 1, d1))

\* FileSystemNodeTree.tree_to_dict
tree_to_dict(st) ==
  IF st.root = None THEN [d |-> <<>>, err |-> "AttributeError"]
  ELSE With(preorder(st.nodes, st.root), LAMBDA order :
         [d |-> to_dict(st.nodes, order, 1, <<>>), err |-> "none"])

\* A node as dict_to_tree makes it: a bigtree Node with a name, and the
\* attributes its dictionary entry gives it.
new_node(M, name, parent) ==
  LET n == Len(M) + 1
      M1 == Append(M, [name |-> name, parent |-> parent, children |-> <<>>])
  IN  IF parent = None THEN M1
      ELSE [M1 EXCEPT ![parent].children = Append(@, n)]

\* The node of the path parts[1..i], whose node for parts[1..i-1] is cur:
\* the child of that name, made when there is none.  The entry's attributes
\* are set on the last node of the path.
RECURSIVE add_path_from(_, _, _, _, _)
add_path_from(M, cur, parts, i, attrs) ==
  IF i > Len(parts) THEN [M EXCEPT ![cur].name = attrs.name]
  ELSE With(FirstChildNamed(M, cur, parts[i]), LAMBDA m :
         IF m # None THEN add_path_from(M, m, parts, i + 1, attrs)
         ELSE add_path_from(new_node(M, parts[i], cur), Len(M) + 1, parts, i + 1, attrs))

RECURSIVE add_dict_to_tree_by_path(_, _, _)
add_dict_to_tree_by_path(M, d, i) ==
  IF i > Len(d) THEN [N |-> M, err |-> "none"]
  ELSE IF d[i].key[1] # M[1].name THEN [N |-> M, err |-> "TreeError"]
  ELSE With(add_path_from(M, 1, d[i].key, 2, d[i].value), LAMBDA M1 :
         add_dict_to_tree_by_path(M1, d, i + 1))

\* FileSystemNodeTree.dict_to_tree: bigtree's dict_to_tree(data), the root
\* named as the first part of the first path, every path added from the root.
dict_to_tree(d) ==
  IF d = <<>> THEN [N |-> <<>>, err |-> "ValueError"]
  ELSE add_dict_to_tree_by_path(new_node(<<>>, d[1].key[1], None), d, 1)

\* ------------------------------------------------------ save and restore

\* The files of the __nodetree__ folder: [name, content, mtime], name the
\* file's stem.  A content is <<>> for a file of no bytes, or <<d>> for the
\* JSON text of the dictionary d: json.dumps writes the keys in their order
\* with their string values, and json.load reads them back so.
Exists(files, name) == \E f \in files : f.name = name

FileOf(files, name) == CHOOSE f \in files : f.name = name

\* open(file_path, "w") then f.write(text): the file of that name is made
\* or emptied, and holds the text
Write(files, name, content, t) ==
  {f \in files : f.name # name}
    \cup {[name |-> name, content |-> content, mtime |-> t]}

Unlink(files, name) == {f \in files : f.name # name}

\* max_age: None, or a number of seconds
NoMaxAge == [given |-> FALSE, seconds |-> 0]
MaxAge(v) == [given |-> TRUE, seconds |-> v]

\* check_saved_tree with the age test accepting a save of exactly max_age.
check_saved_tree_inclusive(files, node_name, max_age, t) ==
  IF max_age.given
  THEN IF Exists(files, node_name)
       THEN (t - FileOf(files, node_name).mtime) <= max_age.seconds
       ELSE FALSE
  ELSE Exists(files, node_name)

\* FileSystemNodeTree.check_saved_tree, at time t
check_saved_tree(files, node_name, max_age, t) ==
  IF max_age.given
  THEN IF Exists(files, node_name)
       THEN (t - FileOf(files, node_name).mtime) < max_age.seconds
       ELSE FALSE
  ELSE Exists(files, node_name)

\* FileSystemNodeTree.json
json(st) ==
  With(tree_to_dict(st), LAMBDA r :
    [text |-> IF r.err = "none" THEN <<r.d>> ELSE <<>>, err |-> r.err])

\* FileSystemNodeTree.export: the file is opened for writing before the
\* tree is read
export(st, files, name, t) ==
  With(json(st), LAMBDA j :
    [files |-> Write(files, name, j.text, t), err |-> j.err])

\* FileSystemNodeTree.importer: json.load, then dict_to_tree
importer(files, name) ==
  LET content == FileOf(files, name).content IN
  IF content = <<>> THEN [N |-> <<>>, err |-> "JSONDecodeError"]
  ELSE dict_to_tree(content[1])

\* FileSystemNodeTree.save, of the store st whose root_node is named name
save(st, files, name, t) ==
  export(st,
         IF check_saved_tree(files, name, NoMaxAge, t) THEN Unlink(files, name)
         ELSE files,
         name, t)

\* FileSystemNodeTree.restore
restore(files, node_name, t) ==
  IF ~check_saved_tree(files, node_name, NoMaxAge, t)
  THEN [N |-> <<>>, err |-> "FileNotFoundError"]
  ELSE importer(files, node_name)

\* ------------------------------------------------------------------- state

VARIABLES
  rootEntity,   \* store -> the filesystem entity it is bound to (root_node)
  store,        \* store -> [nodes, root]: its TreeNodes and root_tree_node
  flags,        \* the packer's policy: [override, merge]
  cache,        \* the CacheIt entries: {[key, t]}
  now,          \* the clock, in seconds
  ticks,        \* clock steps taken
  failures,     \* builds that met an unreadable entity so far
  files,        \* the files of the __nodetree__ folder
  recent,       \* file name -> the latest save() of that name: its store, its time
  last          \* the last operation: what was called and what it returned

vars == <<rootEntity, store, flags, cache, now, ticks, failures, files, recent, last>>

\* What an operation leaves in `last`: its name, the store it acted on, the
\* error it raised, that store before it, and whether the operation before
\* it was the same one; then its arguments and what it returned, the stores
\* and the saved files before it, the time of the call, and the packer's
\* flags before it.
Did(op, s, err) ==
  [op |-> op, s |-> s, err |-> err, pre |-> store[s], again |-> last.op = op,
   caught |-> {}, walked |-> {}, src |-> 0, given |-> 0, calls |-> <<>>,
   path |-> <<>>, name |-> "", max_age |-> NoMaxAge, out |-> <<>>,
   answer |-> FALSE, stores |-> store, files |-> files, t |-> now,
   flags |-> flags]

\* The names restore and check_saved_tree are asked for: the one every root
\* entity has, and one no root entity has.
FileNames == {"A", "B"}

NoStore == [nodes |-> <<>>, root |-> None]

RootPath(s) == EntityPath(rootEntity[s])

Init ==
  /\ rootEntity \in {f \in [Stores -> Entities] :
                        f["src"] \in SourceRoots /\ f["dst"] \in DestinationRoots}
  /\ store = [s \in Stores |-> NoStore]
  /\ flags \in [override : BOOLEAN, merge : BOOLEAN]
  /\ cache = {}
  /\ now = 0
  /\ ticks = 0
  /\ failures = 0
  /\ files = {}
  /\ recent = [name \in FileNames |-> [saved |-> FALSE, st |-> NoStore, at |-> 0]]
  /\ last = [op |-> "init", s |-> "dst", err |-> "none",
             pre |-> NoStore, again |-> FALSE,
             caught |-> {}, walked |-> {}, src |-> 0, given |-> 0, calls |-> <<>>,
             path |-> <<>>, name |-> "", max_age |-> NoMaxAge, out |-> <<>>,
             answer |-> FALSE, stores |-> [s \in Stores |-> NoStore],
             files |-> {}, t |-> 0, flags |-> flags]

\* build()
Build(s, fail) ==
  /\ fail.e # 0 => failures < MaxFailures
  /\ failures' = IF fail.e # 0 THEN failures + 1 ELSE failures
  /\ \E r \in {build_tree(store[s], cache, rootEntity[s], fail, now)} :
     /\ store' = [store EXCEPT ![s] = [nodes |-> r.N, root |-> r.root]]
     /\ cache' = r.cache
     /\ last' = [Did("build", s, r.err) EXCEPT !.caught = r.caught,
                                               !.walked = r.walked]
  /\ UNCHANGED <<rootEntity, flags, now, ticks, files, recent>>

\* The paths a caller passes: of each node, absolute and from the root's
\* name; and the empty path.
PathInputs(s) ==
  LET st == store[s]
      ns == DOMAIN st.nodes
  IN  {<<>>}
      \cup {NodePath(st, RootPath(s), n) : n \in ns}
      \cup {PathName(st.nodes, n) : n \in ns}

AddInputs == {2, 11}

\* add_node(parent_path, child_node)
AddNode(s, path, e) ==
  /\ \E r \in {add_node(store[s], RootPath(s), path, e)} :
     /\ Len(r.N) <= MaxNodes
     /\ store' = [store EXCEPT ![s].nodes = r.N]
     /\ last' = [Did("add_node", s, r.err) EXCEPT !.path = path]
  /\ UNCHANGED <<rootEntity, flags, cache, now, ticks, failures, files, recent>>

\* remove_node(path)
RemoveNode(s, path) ==
  /\ \E r \in {remove_node(store[s], RootPath(s), path)} :
     /\ store' = [store EXCEPT ![s].nodes = r.N]
     /\ last' = [Did("remove_node", s, r.err) EXCEPT !.path = path]
  /\ UNCHANGED <<rootEntity, flags, cache, now, ticks, failures, files, recent>>

Packer ==
  [override |-> flags.override, merge |-> flags.merge,
   root |-> store["dst"].root, rootPath |-> RootPath("dst")]

\* pack taking the source's own TreeNode out of the source tree.
PackMovingSource(e, d) ==
  /\ \E st \in {store["dst"]}, P \in {Packer} :
     \E r \in {IF st.root = None
                THEN [N |-> st.nodes, err |-> "AttributeError", calls |-> <<>>]
                ELSE pack(P, st.nodes, e, d, <<>>)} :
     \E moved \in {IF store["src"].root = None THEN None
                   ELSE search_node_by_name(store["src"], FS[e].name)} :
     /\ Len(r.N) <= MaxNodes
     /\ store' = [store EXCEPT !["dst"].nodes = r.N,
                               !["src"].nodes = IF moved = None THEN @
                                                ELSE detach(@, moved)]
     /\ last' = [Did("pack", "dst", r.err) EXCEPT !.src = e, !.given = d,
                                                  !.calls = r.calls]
  /\ UNCHANGED <<rootEntity, flags, cache, now, ticks, failures, files, recent>>

\* pack(node_from_source, node_from_destination)
Pack(e, d) ==
  /\ \E st \in {store["dst"]}, P \in {Packer} :
     \E r \in {IF st.root = None
                THEN [N |-> st.nodes, err |-> "AttributeError", calls |-> <<>>]
                ELSE pack(P, st.nodes, e, d, <<>>)} :
     /\ Len(r.N) <= MaxNodes
     /\ store' = [store EXCEPT !["dst"].nodes = r.N]
     /\ last' = [Did("pack", "dst", r.err) EXCEPT !.src = e, !.given = d,
                                                  !.calls = r.calls]
  /\ UNCHANGED <<rootEntity, flags, cache, now, ticks, failures, files, recent>>

\* pack_all()
PackAll ==
  /\ \E st \in {store["dst"]}, P \in {Packer} :
     \E r \in {IF st.root = None
                THEN [N |-> st.nodes, err |-> "AttributeError", calls |-> <<>>]
                ELSE pack_all(P, st.nodes, rootEntity["src"])} :
     /\ Len(r.N) <= MaxNodes
     /\ store' = [store EXCEPT !["dst"].nodes = r.N]
     /\ last' = [Did("pack_all", "dst", r.err) EXCEPT !.src = rootEntity["src"],
                                                      !.calls = r.calls]
  /\ UNCHANGED <<rootEntity, flags, cache, now, ticks, failures, files, recent>>

\* save(), at the time now: the file is named as the store's root_node
Save(s) ==
  /\ \E name \in {FS[rootEntity[s]].name} :
     \E r \in {save(store[s], files, name, now)} :
     /\ files' = r.files
     /\ recent' = [recent EXCEPT ![name] =
                      [saved |-> TRUE, st |-> store[s], at |-> now]]
     /\ last' = [Did("save", s, r.err) EXCEPT !.name = name]
  /\ UNCHANGED <<rootEntity, store, flags, cache, now, ticks, failures>>

\* restore(node_name): the tree it returns is left in last.out
Restore(node_name) ==
  /\ \E r \in {restore(files, node_name, now)} :
       last' = [Did("restore", last.s, r.err) EXCEPT !.name = node_name,
                                                     !.out = r.N]
  /\ UNCHANGED <<rootEntity, store, flags, cache, now, ticks, failures, files, recent>>

\* The values of max_age a caller passes.
MaxAges == {NoMaxAge} \cup {MaxAge(v) : v \in {0, 1, max_duration}}

\* check_saved_tree(node_name, max_age): its answer is left in last.answer
CheckSaved(node_name, max_age) ==
  /\ last' = [Did("check_saved_tree", last.s, "none") EXCEPT
                !.name = node_name, !.max_age = max_age,
                !.answer = check_saved_tree(files, node_name, max_age, now)]
  /\ UNCHANGED <<rootEntity, store, flags, cache, now, ticks, failures, files, recent>>

\* The names a caller searches: those of the entities, and one of no entity.
NameInputs == {FS[e].name : e \in Entities} \cup {"z"}

\* search_node_by_name(name): the node it returns is left in last.given
SearchByName(s, name) ==
  /\ \E r \in {IF store[s].root = None
                THEN [n |-> None, err |-> "AttributeError"]
                ELSE [n |-> search_node_by_name(store[s], name), err |-> "none"]} :
       last' = [Did("search_node_by_name", s, r.err) EXCEPT !.name = name,
                                                          !.given = r.n]
  /\ UNCHANGED <<rootEntity, store, flags, cache, now, ticks, failures, files, recent>>

\* The clock moves to one second before the time-to-live of an entry made
\* now runs out, then over it; entries past their time-to-live are dropped.
Tick ==
  /\ ticks < MaxTicks
  /\ now' = now + (IF ticks % 2 = 0 THEN max_duration - 1 ELSE 1)
  /\ ticks' = ticks + 1
  /\ cache' = {en \in cache : now' - en.t < max_duration}
  /\ UNCHANGED <<rootEntity, store, flags, failures, files, recent, last>>

\* The operations of the stores and of the packer, every build reading the
\* filesystem without error, at one instant.
Next ==
  \/ \E s \in Stores : Build(s, NoFail)
  \/ \E s \in Stores : \E path \in PathInputs(s), e \in AddInputs : AddNode(s, path, e)
  \/ \E s \in Stores : \E path \in PathInputs(s) : RemoveNode(s, path)
  \/ \E e \in Under(rootEntity["src"]) :
       \E d \in {None} \cup DOMAIN store["dst"].nodes : Pack(e, d)
  \/ PackAll

Spec == Init /\ [][Next]_vars

\* The builds, with entities that fail to be read, as time passes.
InitBuild == Init /\ flags = [override |-> FALSE, merge |-> FALSE]

NextBuild ==
  \/ \E s \in Stores : Build(s, NoFail)
  \/ \E s \in Stores, m \in FailModes :
       \E e \in Under(rootEntity[s]) : Build(s, [e |-> e, mode |-> m])
  \/ Tick

BuildSpec == InitBuild /\ [][NextBuild]_vars

\* The stores and their saved files, as time passes: two stores whose root
\* entities have the same name and different subtrees.
InitSave == InitBuild /\ rootEntity = [src |-> 1, dst |-> 8]

NextSave ==
  \/ \E s \in Stores : Build(s, NoFail)
  \/ \E s \in Stores : Save(s)
  \/ \E name \in FileNames : Restore(name)
  \/ \E name \in FileNames, max_age \in MaxAges : CheckSaved(name, max_age)
  \/ Tick

SaveSpec == InitSave /\ [][NextSave]_vars

\* The lookups of a store and of its saved files, at one instant.
NextLookup ==
  \/ \E s \in Stores : Build(s, NoFail)
  \/ \E s \in Stores : \E path \in PathInputs(s), e \in AddInputs : AddNode(s, path, e)
  \/ \E s \in Stores : \E path \in PathInputs(s) : RemoveNode(s, path)
  \/ \E s \in Stores : Save(s)
  \/ \E name \in FileNames : Restore(name)
  \/ \E s \in Stores, name \in NameInputs : SearchByName(s, name)

LookupSpec == InitSave /\ [][NextLookup]_vars

\* ------------------------------------------------------ reading the state

\* The nodes a traversal from n visits.
RECURSIVE Reach(_, _)
Reach(N, n) == {n} \cup UNION {Reach(N, N[n].children[i]) : i \in DOMAIN N[n].children}

\* The tree below n by value: name, size, kind and ordered children.
RECURSIVE Struct(_, _)
Struct(N, n) ==
  [name |-> N[n].name, size |-> N[n].size, type |-> N[n].type,
   children |-> [i \in DOMAIN N[n].children |-> Struct(N, N[n].children[i])]]

StoreStruct(st) == IF st.root = None THEN <<>> ELSE Struct(st.nodes, st.root)

\* The mirror of the filesystem subtree of e: its non-hidden entities.
RECURSIVE EntityStruct(_)
EntityStruct(e) ==
  [name |-> FS[e].name, size |-> FS[e].size, type |-> FS[e].kind,
   children |-> [i \in DOMAIN Iter(e) |-> EntityStruct(Iter(e)[i])]]

Occurrences(sq, x) == Cardinality({i \in DOMAIN sq : sq[i] = x})

\* The destination node the last pack was dispatched on (None when absent).
LastDst == IF last.calls = <<>> THEN None ELSE last.calls[1].dst

Calls == SeqToSet(last.calls)

\* ------------------------------------------------------------------ claims

\* C1: in every reachable state, every node that has a parent occurs exactly
\* once in that parent's children, every entry of a children sequence has
\* that node as its parent (so no node is under two parents), and a node a
\* remove_node has detached is absent from its former parent's children and
\* has no parent.
C1_ParentChildrenConsistent ==
  \A s \in Stores :
    LET N == store[s].nodes IN
    /\ \A n \in DOMAIN N :
         N[n].parent # None =>
           /\ N[n].parent \in DOMAIN N
           /\ Occurrences(N[N[n].parent].children, n) = 1
    /\ \A q \in DOMAIN N : \A i \in DOMAIN N[q].children :
         /\ N[q].children[i] \in DOMAIN N
         /\ N[N[q].children[i]].parent = q
    /\ (last.op = "remove_node" /\ last.s = s /\ last.err = "none") =>
         \A n \in DOMAIN last.pre.nodes :
           N[n].parent # last.pre.nodes[n].parent =>
             /\ N[n].parent = None
             /\ Occurrences(N[last.pre.nodes[n].parent].children, n) = 0

\* C1 witness: after a packer run, the destination holds a node two levels
\* below its root, once in its parent's children.
C1_Witness ==
  /\ last.op \in {"pack", "pack_all"}
  /\ \E n \in DOMAIN store["dst"].nodes :
       LET N == store["dst"].nodes IN
       /\ N[n].parent # None
       /\ N[N[n].parent].parent # None
       /\ Occurrences(N[N[n].parent].children, n) = 1

\* C2 (as claimed): for every node n reachable from a store's root, the root
\* included, search_node_by_path on the absolute path of n returns n.
C2_PathSearchFindsEveryNode ==
  \A s \in Stores :
    store[s].root # None =>
      \A n \in Reach(store[s].nodes, store[s].root) :
        search_node_by_path(store[s], RootPath(s),
                            NodePath(store[s], RootPath(s), n)) = n

\* C3 (as claimed): after the replace action on a pair of directories, the
\* source having children and the destination a parent p, the destination is
\* no longer a child of p and p has a childless child named as the source.
C3_ReplaceDirectoryShallowAttach ==
  (/\ last.op = "pack"
   /\ ~flags.override /\ ~flags.merge
   /\ LastDst # None
   /\ IsDirectory(last.src)
   /\ Iter(last.src) # <<>>
   /\ IsDirectoryNode(last.pre.nodes, LastDst)
   /\ last.pre.nodes[LastDst].parent # None)
  =>
    LET N == store["dst"].nodes
        p == last.pre.nodes[LastDst].parent
    IN  /\ Occurrences(N[p].children, LastDst) = 0
        /\ \E i \in DOMAIN N[p].children :
             /\ N[N[p].children[i]].name = FS[last.src].name
             /\ N[N[p].children[i]].children = <<>>

\* The packer with only the override flag set, and with only the merge flag.
OverrideOnly == [Packer EXCEPT !.override = TRUE, !.merge = FALSE]
MergeOnly == [Packer EXCEPT !.override = FALSE, !.merge = TRUE]

\* The last operation was a pack dispatched on a pair of directories.
PackedDirectoryPair ==
  /\ last.op = "pack"
  /\ LastDst # None
  /\ IsDirectory(last.src)
  /\ IsDirectoryNode(last.pre.nodes, LastDst)

\* The destination by value after running pack under P on the pair of the
\* last pack, from the destination as it was before that pack.
PackedFromPre(P) ==
  Struct(pack(P, last.pre.nodes, last.src, last.given, <<>>).N, last.pre.root)

\* C4: on a pair of directories, the run under the override flag alone and
\* the run under the merge flag alone, each from the same destination, leave
\* destination trees equal by value (names, sizes, kinds, ordered children).
C4_OverrideEqualsMergeOnDirectories ==
  (PackedDirectoryPair /\ flags.override # flags.merge) =>
    /\ StoreStruct(store["dst"]) =
         PackedFromPre(IF flags.override THEN OverrideOnly ELSE MergeOnly)
    /\ PackedFromPre(OverrideOnly) = PackedFromPre(MergeOnly)

\* C4 witness: a merge-only pack ran on a pair of directories where the
\* source has a child with no same-named node in the destination and a child
\* with one.
C4_Witness ==
  /\ PackedDirectoryPair
  /\ flags.merge /\ ~flags.override
  /\ \E c \in SeqToSet(Iter(last.src)) :
       find_by_name(last.pre.nodes, last.pre.root, FS[c].name) = None
  /\ \E c \in SeqToSet(Iter(last.src)) :
       find_by_name(last.pre.nodes, last.pre.root, FS[c].name) # None
  /\ \E k \in Calls : k.fn = "merge_directory"

\* The last operation ran the override or the merge action on a pair of
\* directories (only one of the two flags set).
ReconciledDirectoryPair == PackedDirectoryPair /\ flags.override # flags.merge

HasChildNamed(N, d, name) ==
  \E i \in DOMAIN N[d].children : N[N[d].children[i]].name = name

\* C5 (as claimed): after override-directory or merge-directory on (src, dst),
\* for every non-hidden child c of src: when dst had no child named c.name,
\* dst now ends with a new child named c.name; and c was reconciled with no
\* destination node other than a direct child of dst.
C5_DirectChildrenReconciled ==
  ReconciledDirectoryPair =>
    LET N == store["dst"].nodes
        pre == last.pre.nodes
    IN  \A c \in SeqToSet(Iter(last.src)) :
          /\ ~HasChildNamed(pre, LastDst, FS[c].name) =>
               /\ Len(N[LastDst].children) > Len(pre[LastDst].children)
               /\ HasChildNamed(N, LastDst, FS[c].name)
          /\ \A k \in Calls :
               (k.fn \in {"pack", "merge_node"} /\ k.src = c) =>
                 (k.dst # None /\ pre[k.dst].parent = LastDst)

NamesIn(st) ==
  IF st.root = None THEN {}
  ELSE {st.nodes[n].name : n \in Reach(st.nodes, st.root)}

\* C6: a pack for a source node whose name no node of the destination tree
\* has, and a pack_all none of whose first-level source children has a
\* same-named destination node, return without error and leave the destination
\* store as it was.
C6_AbsentDestinationNoAction ==
  /\ (/\ last.op = "pack" /\ last.given = None
      /\ last.pre.root # None
      /\ FS[last.src].name \notin NamesIn(last.pre))
     => (store["dst"] = last.pre /\ last.err = "none")
  /\ (/\ last.op = "pack_all"
      /\ last.pre.root # None
      /\ \A c \in SeqToSet(Children(last.src)) : FS[c].name \notin NamesIn(last.pre))
     => (store["dst"] = last.pre /\ last.err = "none")

\* C6 witness: a pack without a destination node for a source node absent
\* from a destination that holds other nodes.
C6_Witness ==
  /\ last.op = "pack" /\ last.given = None
  /\ last.pre.root # None
  /\ Len(last.pre.nodes) > 1
  /\ FS[last.src].name \notin NamesIn(last.pre)
  /\ LastDst = None

\* C6 witness for pack_all is the same case over every first-level child.
C6_WitnessAll ==
  /\ last.op = "pack_all"
  /\ last.pre.root # None
  /\ \A c \in SeqToSet(Children(last.src)) : FS[c].name \notin NamesIn(last.pre)

RECURSIVE NamesBelow(_, _)
NamesBelow(r, e) ==
  IF e = r THEN <<>> ELSE Append(NamesBelow(r, FS[e].up), FS[e].name)

\* The TreeNode a store holds for the entity e (None when it holds none).
NodeOf(s, e) ==
  IF store[s].root = None THEN None
  ELSE descend(store[s].nodes, store[s].root, NamesBelow(rootEntity[s], e), 1)

\* C8 (as claimed): after a build() that met no enumeration error, the store's
\* tree is the mirror of the filesystem subtree: one TreeNode per non-hidden
\* entity, under the TreeNode of its parent directory, and nothing else.
C8_BuildMirrorsFilesystem ==
  (last.op = "build" /\ last.err = "none" /\ last.caught = {}) =>
    StoreStruct(store[last.s]) = EntityStruct(rootEntity[last.s])

\* C9 (as claimed): an expansion requested for a target node other than the
\* one of an earlier expansion performs the walk.  build() makes a new root
\* TreeNode each time, so every build() that returns has enumerated the root
\* entity, within the time-to-live of an earlier build or not.
C9_OtherTargetNodeIsWalked ==
  (last.op = "build" /\ last.err = "none") =>
    rootEntity[last.s] \in last.walked

\* C10: a build during which a child entity failed (while its node was
\* created, its kind tested or its children enumerated) returns without
\* error; every other non-hidden child of the same directory has its
\* TreeNode under the directory's TreeNode, and the failing child has no
\* TreeNode or a childless one.
C10_FailingChildIsSkipped ==
  (last.op = "build" /\ last.caught # {}) =>
    /\ last.err = "none"
    /\ \A f \in last.caught :
         /\ NodeOf(last.s, FS[f].up) # None
         /\ \A g \in SeqToSet(Iter(FS[f].up)) \ last.caught :
              /\ NodeOf(last.s, g) # None
              /\ store[last.s].nodes[NodeOf(last.s, g)].parent = NodeOf(last.s, FS[f].up)
         /\ NodeOf(last.s, f) # None =>
              store[last.s].nodes[NodeOf(last.s, f)].children = <<>>

\* C10 witness: the first child of a directory failed and the children
\* enumerated after it have their TreeNodes.
C10_Witness ==
  /\ last.op = "build" /\ last.err = "none"
  /\ \E f \in last.caught :
       LET sibs == Iter(FS[f].up) IN
       /\ Len(sibs) > 1
       /\ sibs[1] = f
       /\ \A i \in 2..Len(sibs) : NodeOf(last.s, sibs[i]) # None

\* C10 witness, deeper: a directory two levels down could not be enumerated.
C10_WitnessEnum ==
  /\ last.op = "build" /\ last.err = "none"
  /\ \E f \in last.caught :
       /\ IsDirectory(f)
       /\ NodeOf(last.s, f) # None
       /\ FS[f].kids # <<>>
       /\ store[last.s].nodes[NodeOf(last.s, f)].children = <<>>

\* The child entries of p by value: name, size and kind.
Membership(N, p) ==
  {[name |-> N[c].name, size |-> N[c].size, type |-> N[c].type] :
     c \in SeqToSet(N[p].children)}

\* C11 (as claimed): for every node n a store holds under a parent p,
\* remove_node(path of n) returns, add_node(path of p, n's entity) after it
\* returns, and p's children then have the same entries by name, size and
\* kind as before the two calls.
C11_DetachThenAttachRestores ==
  \A s \in Stores : \A e \in Under(rootEntity[s]) :
    LET st == store[s]
        n == NodeOf(s, e)
    IN  (n # None /\ n # st.root) =>
          LET p == st.nodes[n].parent
              removed == remove_node(st, RootPath(s), NodePath(st, RootPath(s), n))
              added == add_node([st EXCEPT !.nodes = removed.N], RootPath(s),
                                NodePath(st, RootPath(s), p), e)
          IN  /\ removed.err = "none"
              /\ added.err = "none"
              /\ Membership(added.N, p) = Membership(st.nodes, p)

\* The tree of M below m has the names, sizes, kinds and ordered children of
\* the tree of N below n.
RECURSIVE SameTree(_, _, _, _)
SameTree(N, n, M, m) ==
  /\ M[m].name = N[n].name
  /\ "size" \in DOMAIN M[m] /\ M[m].size = N[n].size
  /\ "type" \in DOMAIN M[m] /\ M[m].type = N[n].type
  /\ Len(M[m].children) = Len(N[n].children)
  /\ \A i \in DOMAIN N[n].children :
       SameTree(N, N[n].children[i], M, M[m].children[i])

\* The tree of M below m has the names and ordered children of the tree of N
\* below n.
RECURSIVE SameNames(_, _, _, _)
SameNames(N, n, M, m) ==
  /\ M[m].name = N[n].name
  /\ Len(M[m].children) = Len(N[n].children)
  /\ \A i \in DOMAIN N[n].children :
       SameNames(N, N[n].children[i], M, M[m].children[i])

\* C12 (as claimed): for every built store, the tree importer returns from
\* the file export writes has, at the root and at every descendant, the
\* name, the size, the kind and the ordered children of the store's tree.
C12_ExportImportRoundTrip ==
  \A s \in Stores :
    store[s].root # None =>
      LET name == FS[rootEntity[s]].name
          written == export(store[s], files, name, now)
          read == importer(written.files, name)
      IN  /\ written.err = "none"
          /\ read.err = "none"
          /\ SameTree(store[s].nodes, store[s].root, read.N, 1)

\* What does hold of the round trip: the names and the ordered children.
RoundTripKeepsNames ==
  \A s \in Stores :
    store[s].root # None =>
      LET name == FS[rootEntity[s]].name
          read == importer(export(store[s], files, name, now).files, name)
      IN  read.err = "none" /\ SameNames(store[s].nodes, store[s].root, read.N, 1)

\* The last operation left every store's tree (nodes, parent links, children
\* order) and the saved files as they were.
NothingChanged == store = last.stores /\ files = last.files

\* C13: an add_node whose parent_path the path search does not resolve raises
\* the parent-not-found ValueError; a remove_node whose path the search does
\* not resolve raises the not-found ValueError; a restore for a name no save
\* was made for raises FileNotFoundError; and each leaves the stores' trees
\* and the saved files exactly as before the call.
C13_FailedLookupsChangeNothing ==
  /\ (/\ last.op \in {"add_node", "remove_node"}
      /\ last.pre.root # None
      /\ search_node_by_path(last.pre, RootPath(last.s), last.path) = None)
       => (last.err = "ValueError" /\ NothingChanged)
  /\ (last.op = "restore" /\ ~recent[last.name].saved)
       => (last.err = "FileNotFoundError" /\ last.out = <<>> /\ NothingChanged)

\* C13 witness: restore of a name never saved, while a save of another name
\* is on disk.
C13_Witness ==
  /\ last.op = "restore" /\ last.name = "B"
  /\ last.err = "FileNotFoundError"
  /\ Exists(files, "A")

\* C13 witness, add_node: the path of a node the built store holds is given
\* as parent path and is not resolved.
C13_WitnessAdd ==
  /\ last.op = "add_node" /\ last.err = "ValueError"
  /\ \E n \in DOMAIN store[last.s].nodes :
       last.path = NodePath(store[last.s], RootPath(last.s), n)
  /\ Exists(files, "A")

\* C13 witness, remove_node
C13_WitnessRemove ==
  /\ last.op = "remove_node" /\ last.err = "ValueError"
  /\ \E n \in DOMAIN store[last.s].nodes :
       last.path = NodePath(store[last.s], RootPath(last.s), n)
  /\ Exists(files, "A")

\* C14 (as claimed, of the path of a node the store holds below its root):
\* remove_node returns, and after it the node has no parent, no traversal
\* from the root visits the node or a descendant of it, and every other node
\* has the parent and the children it had, the node's former parent losing
\* that one child.
C14_RemovedSubtreeUnreachable ==
  \A s \in Stores : \A n \in DOMAIN store[s].nodes :
    LET st == store[s]
        N == st.nodes
    IN  (st.root # None /\ n # st.root /\ n \in Reach(N, st.root)) =>
          LET r == remove_node(st, RootPath(s), NodePath(st, RootPath(s), n))
              p == N[n].parent
          IN  /\ r.err = "none"
              /\ r.N[n].parent = None
              /\ Reach(r.N, st.root) \cap Reach(N, n) = {}
              /\ \A m \in DOMAIN N \ {n} :
                   /\ r.N[m].parent = N[m].parent
                   /\ r.N[m].children =
                        IF m = p THEN RemoveAt(N[m].children, n) ELSE N[m].children

SavedFiles(name) == {f \in files : f.name = name}

\* C15 (as claimed): at any time there is at most one saved file for a name;
\* a restore(name) made after a save for that name returns the tree that
\* latest save exported, with its names, sizes, kinds and ordered children;
\* and a restore(name) made when no save for that name has occurred raises
\* the not-found error.
C15_RestoreReturnsLatestSave ==
  /\ \A name \in FileNames : Cardinality(SavedFiles(name)) <= 1
  /\ (last.op = "restore" /\ recent[last.name].saved) =>
       LET st == recent[last.name].st IN
       /\ last.err = "none"
       /\ st.root # None
       /\ SameTree(st.nodes, st.root, last.out, 1)
  /\ (last.op = "restore" /\ ~recent[last.name].saved) =>
       last.err = "FileNotFoundError"

\* What does hold of save and restore: one file for a name at most, the file
\* of the latest save of a built store read back with the names and ordered
\* children of that store's tree, FileNotFoundError when no save was made.
RestoreReadsLatestSave ==
  /\ \A name \in FileNames : Cardinality(SavedFiles(name)) <= 1
  /\ (last.op = "restore" /\ recent[last.name].saved) =>
       LET st == recent[last.name].st IN
       IF st.root = None THEN last.err = "JSONDecodeError"
       ELSE last.err = "none" /\ SameNames(st.nodes, st.root, last.out, 1)
  /\ (last.op = "restore" /\ ~recent[last.name].saved) =>
       last.err = "FileNotFoundError"

C16_WitnessZero ==
  /\ last.op = "check_saved_tree"
  /\ last.max_age = MaxAge(0)
  /\ recent[last.name].saved
  /\ last.t = recent[last.name].at
  /\ ~last.answer

\* C16 witness, max_age None: a save older than any max_age asked is accepted.
C16_WitnessNone ==
  /\ last.op = "check_saved_tree"
  /\ last.max_age = NoMaxAge
  /\ recent[last.name].saved
  /\ last.t - recent[last.name].at >= max_duration
  /\ last.answer

\* C17: in every state after a build, whatever add_node, remove_node, pack
\* and pack_all calls followed it (under any policy, a source node named as
\* the destination root included), the node a store holds as its root has no
\* parent, every node of its subtree hangs below it, and a call other than
\* build leaves the store holding the same root node, with the same name.
C17_RootStaysRoot ==
  \A s \in Stores :
    LET N == store[s].nodes
        root == store[s].root
    IN  root # None =>
          /\ root \in DOMAIN N
          /\ N[root].parent = None
          /\ \A n \in Reach(N, root) \ {root} : N[n].parent \in Reach(N, root)
          /\ (last.s = s /\ last.op \in {"add_node", "remove_node", "pack", "pack_all"}) =>
               /\ root = last.pre.root
               /\ N[root].name = last.pre.nodes[root].name
               /\ N[root].type = last.pre.nodes[root].type

\* C17 witness: under the replace policy, a source directory named as the
\* destination root was packed, dispatched on the destination root itself.
C17_Witness ==
  /\ last.op = "pack"
  /\ ~flags.override /\ ~flags.merge
  /\ IsDirectory(last.src)
  /\ LastDst # None
  /\ LastDst = store["dst"].root
  /\ FS[last.src].name = store["dst"].nodes[LastDst].name
  /\ \E k \in Calls : k.fn = "replace_directory"

\* The action the flags choose for a dispatch.
Chosen ==
  IF flags.override THEN "override_node"
  ELSE IF flags.merge THEN "merge_node"
  ELSE "replace_node"

\* C18: every pack of a run that has a destination node calls, first and on
\* its own pair, the action the flags choose: override_node when override is
\* set, whatever merge is; otherwise merge_node when merge is set; otherwise
\* replace_node.  An action the flags do not choose runs only when the
\* chosen one calls it (replace_node, for a pair that is not two
\* directories).  And the flags are after a pack or pack_all what they were
\* before it.
C18_DispatchByFlags ==
  last.op \in {"pack", "pack_all"} =>
    /\ \A i \in DOMAIN last.calls :
         (last.calls[i].fn = "pack" /\ last.calls[i].dst # None) =>
           /\ i < Len(last.calls)
           /\ last.calls[i + 1] = Call(Chosen, last.calls[i].src, last.calls[i].dst)
    /\ \A i \in DOMAIN last.calls :
         last.calls[i].fn \in {"override_node", "merge_node", "replace_node"} =>
           /\ i > 1
           /\ \/ last.calls[i].fn = Chosen
              \/ /\ last.calls[i].fn = "replace_node"
                 /\ last.calls[i - 1] =
                      Call(Chosen, last.calls[i].src, last.calls[i].dst)
    /\ flags = last.flags

\* C18 witness: with both flags set, a pack with a destination node ran the
\* override action.
C18_Witness ==
  /\ last.op = "pack"
  /\ flags.override /\ flags.merge
  /\ LastDst # None
  /\ Len(last.calls) > 1
  /\ last.calls[2].fn = "override_node"

\* C18 witness, no flag set: a pack_all ran the replace action.
C18_WitnessReplace ==
  /\ last.op = "pack_all"
  /\ ~flags.override /\ ~flags.merge
  /\ \E k \in Calls : k.fn = "replace_node"

\* C18 witness, merge alone
C18_WitnessMerge ==
  /\ last.op = "pack"
  /\ ~flags.override /\ flags.merge
  /\ \E k \in Calls : k.fn = "merge_directory"

\* C19 (as claimed): after the replace action on a pair that is not two
\* directories, the destination node having a parent p, the action has
\* returned, the destination node is still a child of p, and p's children
\* are those it had followed by one new node, childless and named as the
\* source node.
C19_ReplaceAppendsBesideDestination ==
  (/\ last.op = "pack"
   /\ ~flags.override /\ ~flags.merge
   /\ LastDst # None
   /\ ~(IsDirectory(last.src) /\ IsDirectoryNode(last.pre.nodes, LastDst))
   /\ last.pre.nodes[LastDst].parent # None)
    => LET N == store["dst"].nodes
           p == last.pre.nodes[LastDst].parent
           new == Len(last.pre.nodes) + 1
       IN  /\ last.err = "none"
           /\ N[LastDst].parent = p
           /\ Len(N) = new
           /\ N[p].children = Append(last.pre.nodes[p].children, new)
           /\ N[new].name = FS[last.src].name
           /\ N[new].children = <<>>

\* C20: under the override policy and under the merge policy, after a pack
\* or a pack_all every node that was reachable from the destination root is
\* still reachable from it and has the parent it had, and every node keeps
\* the children it had, in their order, before any new one: the destination
\* only grows, its children without counterpart in the source included.
C20_OverrideAndMergeOnlyGrow ==
  (/\ last.op \in {"pack", "pack_all"}
   /\ (flags.override \/ flags.merge)
   /\ last.pre.root # None)
    => LET N == store["dst"].nodes
           P == last.pre.nodes
           root == last.pre.root
       IN  /\ store["dst"].root = root
           /\ \A n \in Reach(P, root) :
                /\ n \in Reach(N, root)
                /\ N[n].parent = P[n].parent
                /\ Len(N[n].children) >= Len(P[n].children)
                /\ SubSeq(N[n].children, 1, Len(P[n].children)) = P[n].children

\* C20 witness: under the merge policy alone, a directory was packed onto a
\* destination directory that has a child named as no child of the source
\* directory, and the run went through merge_directory.
C20_Witness ==
  /\ last.op = "pack"
  /\ ~flags.override /\ flags.merge
  /\ LastDst # None
  /\ IsDirectory(last.src) /\ IsDirectoryNode(store["dst"].nodes, LastDst)
  /\ \E k \in Calls : k.fn = "merge_directory"
  /\ \E c \in SeqToSet(store["dst"].nodes[LastDst].children) :
       \A k \in SeqToSet(Iter(last.src)) :
         FS[k].name # store["dst"].nodes[c].name

\* C20 witness, override: a pack_all under the override policy reached a
\* pair that is not two directories.
C20_WitnessOverride ==
  /\ last.op = "pack_all"
  /\ flags.override
  /\ \E k \in Calls : k.fn = "replace_node"

\* The first node of a sequence of nodes that has the name (None when none).
FirstNamed(N, order, name) ==
  LET hits == {i \in DOMAIN order : N[order[i]].name = name}
  IN  IF hits = {} THEN None
      ELSE order[CHOOSE i \in hits : \A j \in hits : i <= j]

\* C21: search_node_by_name(name) on a built store returns the first node
\* that has the name in the pre-order of the tree (a node before its
\* children, the children in their order, the root included), so the
\* pre-order-first one when several nodes have the name; it returns None
\* exactly when no node of the tree has the name; and it leaves the tree as
\* it was.
C21_SearchByNamePreOrderFirst ==
  (last.op = "search_node_by_name" /\ last.pre.root # None) =>
    LET N == last.pre.nodes
        root == last.pre.root
    IN  /\ last.err = "none"
        /\ last.given = FirstNamed(N, preorder(N, root), last.name)
        /\ last.given = None <=> \A n \in Reach(N, root) : N[n].name # last.name
        /\ store = last.stores

\* C21 witness: two nodes have the name searched, the one nearer to the root
\* comes later in pre-order, and the deeper, pre-order-first one is returned.
C21_Witness ==
  /\ last.op = "search_node_by_name" /\ last.given # None
  /\ LET N == store[last.s].nodes IN
     \E m \in Reach(N, store[last.s].root) \ {last.given} :
       /\ N[m].name = last.name
       /\ Len(PathName(N, m)) < Len(PathName(N, last.given))

\* C21 witness, not found: the built tree has no node of the name.
C21_WitnessAbsent ==
  /\ last.op = "search_node_by_name" /\ last.err = "none"
  /\ last.given = None
  /\ last.name = "z"

\* C22: after a pack or a pack_all, under any policy, the source store has
\* the nodes, the parent links and the children order it had; the nodes the
\* destination had are still its nodes, with their names, and every other
\* node of the destination was created by the run.
C22_SourceUntouched ==
  last.op \in {"pack", "pack_all"} =>
    LET N == store["dst"].nodes
        P == last.stores["dst"].nodes
    IN  /\ store["src"] = last.stores["src"]
        /\ Len(N) >= Len(P)
        /\ \A n \in DOMAIN P : N[n].name = P[n].name /\ N[n].size = P[n].size
        /\ \A n \in DOMAIN N \ DOMAIN P :
             \E k \in Calls : k.fn = "add_node" /\ FS[k.src].name = N[n].name

\* C22 witness: both stores built, a pack_all reached the attachment of a
\* source entity whose TreeNode the source store holds.
C22_Witness ==
  /\ last.op = "pack_all"
  /\ store["src"].root # None
  /\ store["dst"].root # None
  /\ \E k \in Calls :
       /\ k.fn = "add_node"
       /\ NodeOf("src", k.src) # None

\* The operations of a run that take a source entity.
Visits == {"pack", "override_node", "override_directory", "merge_node",
           "merge_directory", "replace_node", "replace_directory", "add_node"}

\* C23: a pack_all is one step of the model, taken when the run has ended,
\* and every pack_all ends, under every policy: by completing or by the error
\* it raised.  In the calls of the run no operation is made twice on the
\* same source entity, whatever was added to the destination meanwhile;
\* every source entity worked on is a first-level child of the source root or
\* a child of a directory that override_directory or merge_directory was
\* called on before, one level up; so the run is no longer than the
\* operations times the entities below the source root.
C23_PackAllEnds ==
  last.op = "pack_all" =>
    LET cs == last.calls
        below == Under(rootEntity["src"]) \ {rootEntity["src"]}
    IN  /\ last.err \in {"none", "ValueError", "AttributeError"}
        /\ \A i, j \in DOMAIN cs :
             (i < j /\ cs[i].fn = cs[j].fn /\ cs[i].fn \in Visits) =>
               cs[i].src # cs[j].src
        /\ \A j \in DOMAIN cs :
             cs[j].fn \in Visits =>
               /\ cs[j].src \in below
               /\ \/ cs[j].src \in SeqToSet(Children(rootEntity["src"]))
                  \/ \E i \in 1..(j - 1) :
                       /\ cs[i].fn \in {"override_directory", "merge_directory"}
                       /\ cs[i].src = FS[cs[j].src].up
        /\ Len(cs) <= (Cardinality(Visits) + 1) * Cardinality(below)

\* C23 witness: a pack_all went one level down, to a child of a first-level
\* directory of the source, and ended there by an error.
C23_Witness ==
  /\ last.op = "pack_all" /\ last.err # "none"
  /\ \E k \in Calls :
       /\ k.fn \in Visits
       /\ FS[k.src].up # rootEntity["src"]

\* C23 witness, completing: a pack_all that found no destination node for
\* any first-level child returned.
C23_WitnessCompletes ==
  /\ last.op = "pack_all" /\ last.err = "none"
  /\ store["dst"].root # None
  /\ Len(last.calls) >= 2

====
